---- MODULE Spec2Model ----
(***************************************************************************)
(* One page run of the dashboard script app.py: the sidebar date range,    *)
(* tab 1 (database explorer: connect, list tables, load, filter by         *)
(* created_at, count per day, display) and tab 2 (three GA4 reports).      *)
(* The script runs top to bottom; an uncaught exception ends the run.      *)
(*                                                                         *)
(* Calendar dates are the days 1..MaxDay of one month.  A timestamp is a   *)
(* day with a time of day.  A cell of the created_at column is             *)
(*   kind "ts"   : a datetime value (day, tod)                             *)
(*   kind "str"  : a string that parses to (day, tod)                      *)
(*   kind "none" : a NULL of an object column                              *)
(*   kind "nat"  : the missing datetime NaT                                *)
(*   kind "bad"  : a string that does not parse                            *)
(***************************************************************************)
EXTENDS Integers, Sequences, FiniteSets

VARIABLES
  pc,             \* position of the run in the script
  start_date,     \* line 20
  end_date,       \* line 21
  picked,         \* history: the two dates the date inputs returned
  sidebar_error,  \* line 24 shown
  engine,         \* line 90: "engine" or "None"
  db_error,       \* line 34 shown
  queries,        \* the pd.read_sql calls issued, in order (lines 94, 102)
  columns,        \* df.columns
  fetched,        \* history: the table as pd.read_sql returned it (line 102)
  df,             \* line 102, rewritten by line 106
  df_filtered,    \* line 108
  daily_counts,   \* lines 114-115
  info,           \* N of line 110, NoInfo before
  warnings,       \* lines 118, 122 shown
  chart,          \* line 116 drawn
  displayed,      \* which table st.dataframe received (lines 120, 123)
  shown,          \* the table st.dataframe received
  ga4_requests,   \* the run_report requests issued, in order
  kpis_shown,     \* lines 133-147 ran
  exception       \* the uncaught exception that ended the run, "none" if none

vars == <<pc, start_date, end_date, picked, sidebar_error,
          engine, db_error, queries,
          columns, fetched, df, df_filtered, daily_counts,
          info, warnings, chart, displayed, shown,
          ga4_requests, kpis_shown, exception>>

\* ---------------------------------------------------------------- bounds
MaxDay == 3
MaxLen == 3

Days == 1..MaxDay
TimesOfDay == {0, 1}

\* ---------------------------------------------------------------- values
NaTDate == 0
NoInfo == -1

Ts(d, t) == [kind |-> "ts", day |-> d, tod |-> t]
Str(d, t) == [kind |-> "str", day |-> d, tod |-> t]
NoneCell == [kind |-> "none", day |-> 0, tod |-> 0]
NaT == [kind |-> "nat", day |-> 0, tod |-> 0]
BadCell == [kind |-> "bad", day |-> 0, tod |-> 0]

\* A datetime column as the driver returns it, and a text / object column.
DatetimeCells == {Ts(d, t) : d \in Days, t \in TimesOfDay} \cup {NaT}
ObjectCells == {Str(d, 0) : d \in Days} \cup {NoneCell, BadCell}

Row(i, c) == [id |-> i, created_at |-> c]
RowNoDate(i) == [id |-> i]

TablesOver(cells) ==
  UNION {{[i \in 1..n |-> Row(i, cs[i])] : cs \in [1..n -> cells]} : n \in 0..MaxLen}

TablesWithDate == TablesOver(DatetimeCells) \cup TablesOver(ObjectCells)
TablesWithoutDate == {[i \in 1..n |-> RowNoDate(i)] : n \in 0..MaxLen}

\* ---------------------------------------------------------------- pandas
\* pd.to_datetime on one value; it raises on a string that does not parse.
to_datetime_raises(v) == v.kind = "bad"

to_datetime_shifted(v) ==
  IF v.kind \in {"ts", "str"} THEN Ts(v.day + 1, v.tod) ELSE NaT

to_datetime(v) ==
  IF v.kind \in {"ts", "str"} THEN Ts(v.day, v.tod) ELSE NaT

\* Series.dt.date on one value: the calendar date, NaT for a missing one.
dt_date(v) == IF v.kind = "ts" THEN v.day ELSE NaTDate

\* Object comparison against a scalar date: a null element compares False.
date_ge(d, bound) == d # NaTDate /\ d >= bound
date_le(d, bound) == d # NaTDate /\ d <= bound

mask_midnight(v, s, e) ==
  /\ date_ge(dt_date(v), s)
  /\ dt_date(v) # NaTDate
  /\ (v.day < e \/ (v.day = e /\ v.tod = 0))

mask(v, s, e) == date_ge(dt_date(v), s) /\ date_le(dt_date(v), e)

\* df['created_at'] = pd.to_datetime(df['created_at'])
convert_column(t) ==
  [i \in 1..Len(t) |-> [t[i] EXCEPT !.created_at = to_datetime(t[i].created_at)]]

column_raises(t) == \E i \in 1..Len(t) : to_datetime_raises(t[i].created_at)

filter_by_range_newest_first(t, s, e) ==
  LET keep(r) == mask(r.created_at, s, e)
      sel == SelectSeq(convert_column(t), keep)
  IN [i \in 1..Len(sel) |-> sel[Len(sel) + 1 - i]]

\* Lines 106-108 as one function of a table and a range; df.loc[mask] keeps
\* the rows whose mask is True, in the order of df.
filter_by_range(t, s, e) ==
  LET keep(r) == mask(r.created_at, s, e)
  IN SelectSeq(convert_column(t), keep)

RECURSIVE SortedSeq(_)
SortedSeq(S) ==
  IF S = {} THEN <<>>
  ELSE LET m == CHOOSE x \in S : \A y \in S : x <= y
       IN <<m>> \o SortedSeq(S \ {m})

RECURSIVE AppearanceOrder(_, _)
AppearanceOrder(t, seen) ==
  IF t = <<>> THEN <<>>
  ELSE LET k == dt_date(Head(t).created_at)
       IN IF k = NaTDate \/ k \in seen
          THEN AppearanceOrder(Tail(t), seen)
          ELSE <<k>> \o AppearanceOrder(Tail(t), seen \cup {k})

group_keys(t) == {dt_date(t[i].created_at) : i \in 1..Len(t)} \ {NaTDate}
group_size(t, k) == Cardinality({i \in 1..Len(t) : dt_date(t[i].created_at) = k})

groupby_size_unsorted(t) ==
  LET ks == AppearanceOrder(t, {})
  IN [j \in 1..Len(ks) |-> [Fecha |-> ks[j], Registros |-> group_size(t, ks[j])]]

groupby_size_nunique(t) ==
  LET ks == SortedSeq(group_keys(t))
  IN [j \in 1..Len(ks) |->
        [Fecha |-> ks[j],
         Registros |-> Cardinality({t[i].created_at : i \in
                          {i \in 1..Len(t) : dt_date(t[i].created_at) = ks[j]}})]]

\* groupby(dates).size().reset_index(): keys sorted, null keys dropped.
groupby_size(t) ==
  LET ks == SortedSeq(group_keys(t))
  IN [j \in 1..Len(ks) |-> [Fecha |-> ks[j], Registros |-> group_size(t, ks[j])]]

\* d.strftime("%Y-%m-%d"): the two day digits (year and month are fixed).
format_date(d) == <<d \div 10, d % 10>>

Request(kind, s, e) ==
  [report |-> kind, start_date |-> format_date(s), end_date |-> format_date(e)]

\* ---------------------------------------------------------------- script
Init ==
  /\ pc = "sidebar"
  /\ start_date = 1 /\ end_date = 1 /\ picked = <<1, 1>>
  /\ sidebar_error = FALSE
  /\ engine = "unset" /\ db_error = FALSE /\ queries = <<>>
  /\ columns = {} /\ fetched = <<>> /\ df = <<>> /\ df_filtered = <<>>
  /\ daily_counts = <<>>
  /\ info = NoInfo /\ warnings = {} /\ chart = FALSE
  /\ displayed = "none" /\ shown = <<>>
  /\ ga4_requests = <<>> /\ kpis_shown = FALSE
  /\ exception = "none"

Tab1Vars == <<engine, db_error, queries, columns, fetched, df, df_filtered,
              daily_counts, info, warnings, chart, displayed, shown>>
Tab2Vars == <<ga4_requests, kpis_shown>>
DateVars == <<start_date, end_date, picked, sidebar_error>>

SidebarSwapped ==
  /\ pc = "sidebar"
  /\ \E s \in Days, e \in Days :
       /\ picked' = <<s, e>>
       /\ start_date' = IF s > e THEN e ELSE s
       /\ end_date' = IF s > e THEN s ELSE e
       /\ sidebar_error' = (s > e)
  /\ pc' = "connect"
  /\ UNCHANGED <<Tab1Vars, Tab2Vars, exception>>

\* Lines 20-24: the two date inputs and the inverted-range message.
Sidebar ==
  /\ pc = "sidebar"
  /\ \E s \in Days, e \in Days :
       /\ picked' = <<s, e>>
       /\ start_date' = s
       /\ end_date' = e
       /\ sidebar_error' = (s > e)
  /\ pc' = "connect"
  /\ UNCHANGED <<Tab1Vars, Tab2Vars, exception>>

\* Lines 27-35, 90, 92: the engine, or None with st.error on any exception.
get_db_connection ==
  /\ pc = "connect"
  /\ \E ok \in BOOLEAN :
       /\ engine' = IF ok THEN "engine" ELSE "None"
       /\ db_error' = ~ok
       /\ pc' = IF ok THEN "list_tables" ELSE "tab2"
  /\ UNCHANGED <<DateVars, queries, columns, fetched, df, df_filtered,
                 daily_counts, info, warnings, chart, displayed, shown,
                 Tab2Vars, exception>>

\* Lines 93-96: the table-list query; nothing more when there is no table.
ListTables ==
  /\ pc = "list_tables"
  /\ queries' = Append(queries, "list_tables")
  /\ \E empty \in BOOLEAN : pc' = IF empty THEN "tab2" ELSE "load"
  /\ UNCHANGED <<DateVars, engine, db_error, columns, fetched, df, df_filtered,
                 daily_counts, info, warnings, chart, displayed, shown,
                 Tab2Vars, exception>>

\* Lines 97-104: SELECT * of the selected table and the column test.
LoadTable ==
  /\ pc = "load"
  /\ queries' = Append(queries, "select_all")
  /\ \E hasDate \in BOOLEAN :
       /\ columns' = IF hasDate THEN {"id", "created_at"} ELSE {"id"}
       /\ \E t \in (IF hasDate THEN TablesWithDate ELSE TablesWithoutDate) :
            /\ fetched' = t
            /\ df' = t
       /\ pc' = IF hasDate THEN "filter" ELSE "no_date_column"
  /\ UNCHANGED <<DateVars, engine, db_error, df_filtered, daily_counts, info,
                 warnings, chart, displayed, shown, Tab2Vars, exception>>

\* Lines 106-110: convert the column in place, mask, select, report N.
Tab1Filter ==
  /\ pc = "filter"
  /\ IF column_raises(df)
     THEN /\ exception' = "to_datetime"
          /\ pc' = "crashed"
          /\ UNCHANGED <<df, df_filtered, info>>
     ELSE /\ df' = convert_column(df)
          /\ df_filtered' = filter_by_range(df, start_date, end_date)
          /\ info' = Len(df_filtered')
          /\ pc' = "aggregate"
          /\ UNCHANGED exception
  /\ UNCHANGED <<DateVars, engine, db_error, queries, columns, fetched,
                 daily_counts, warnings, chart, displayed, shown, Tab2Vars>>

\* Lines 112-120: the per-day counts and chart, or the warning; the table.
Tab1Aggregate ==
  /\ pc = "aggregate"
  /\ IF df_filtered # <<>>
     THEN /\ daily_counts' = groupby_size(df_filtered)
          /\ chart' = TRUE
          /\ UNCHANGED warnings
     ELSE /\ warnings' = warnings \cup {"no_records"}
          /\ UNCHANGED <<daily_counts, chart>>
  /\ displayed' = "df_filtered"
  /\ shown' = df_filtered
  /\ pc' = "tab2"
  /\ UNCHANGED <<DateVars, engine, db_error, queries, columns, fetched, df,
                 df_filtered, info, Tab2Vars, exception>>

Tab1NoDateColumnFiltered ==
  /\ pc = "no_date_column"
  /\ warnings' = warnings \cup {"no_date_column"}
  /\ displayed' = "df"
  /\ shown' = df_filtered
  /\ pc' = "tab2"
  /\ UNCHANGED <<DateVars, engine, db_error, queries, columns, fetched, df,
                 df_filtered, daily_counts, info, chart, Tab2Vars, exception>>

\* Lines 121-123: no created_at column, the whole table is displayed.
Tab1NoDateColumn ==
  /\ pc = "no_date_column"
  /\ warnings' = warnings \cup {"no_date_column"}
  /\ displayed' = "df"
  /\ shown' = df
  /\ pc' = "tab2"
  /\ UNCHANGED <<DateVars, engine, db_error, queries, columns, fetched, df,
                 df_filtered, daily_counts, info, chart, Tab2Vars, exception>>

\* Lines 47-55, 131-147: the KPI report; the metrics only when a row came.
get_ga4_kpis ==
  /\ pc = "tab2"
  /\ ga4_requests' = Append(ga4_requests, Request("kpis", start_date, end_date))
  /\ \E rows \in BOOLEAN : kpis_shown' = rows
  /\ pc' = "hourly"
  /\ UNCHANGED <<DateVars, Tab1Vars, exception>>

\* Lines 70-81, 153-155: the hourly report; sort_values("Hora") on the
\* frame built from zero rows has no such column and raises KeyError.
get_ga4_hourly ==
  /\ pc = "hourly"
  /\ ga4_requests' = Append(ga4_requests, Request("hourly", start_date, end_date))
  /\ \E rows \in BOOLEAN :
       IF rows
       THEN pc' = "pages" /\ UNCHANGED exception
       ELSE pc' = "crashed" /\ exception' = "sort_values"
  /\ UNCHANGED <<DateVars, Tab1Vars, kpis_shown>>

\* Lines 57-68, 159-166: the pages / sources report.
get_ga4_pages_source ==
  /\ pc = "pages"
  /\ ga4_requests' = Append(ga4_requests, Request("pages", start_date, end_date))
  /\ pc' = "done"
  /\ UNCHANGED <<DateVars, Tab1Vars, kpis_shown, exception>>

Next ==
  \/ Sidebar
  \/ get_db_connection
  \/ ListTables
  \/ LoadTable
  \/ Tab1Filter
  \/ Tab1Aggregate
  \/ Tab1NoDateColumn
  \/ get_ga4_kpis
  \/ get_ga4_hourly
  \/ get_ga4_pages_source

Spec == Init /\ [][Next]_vars

\* ---------------------------------------------------------------- properties
\* The filter of tab 1 has completed (the "Mostrando N registros" line is out).
FilterRan == info # NoInfo

\* The calendar date a fetched cell stands for, NaTDate when it has none.
CalendarDate(c) == IF c.kind \in {"ts", "str"} THEN c.day ELSE NaTDate

RetainedIds == {df_filtered[j].id : j \in 1..Len(df_filtered)}

InRangeIds ==
  {i \in 1..Len(fetched) :
     /\ CalendarDate(fetched[i].created_at) # NaTDate
     /\ start_date <= CalendarDate(fetched[i].created_at)
     /\ CalendarDate(fetched[i].created_at) <= end_date}

RECURSIVE SumRegistros(_)
SumRegistros(dc) ==
  IF dc = <<>> THEN 0 ELSE Head(dc).Registros + SumRegistros(Tail(dc))

\* C1: with a created_at column, a fetched record is retained if and only if
\* its calendar date d satisfies start_date <= d <= end_date, both bounds
\* inclusive and the time of day ignored.
C1_InclusiveRange ==
  FilterRan =>
    \A i \in 1..Len(fetched) :
      (i \in RetainedIds) <=>
        (/\ CalendarDate(fetched[i].created_at) # NaTDate
         /\ start_date <= CalendarDate(fetched[i].created_at)
         /\ CalendarDate(fetched[i].created_at) <= end_date)

\* A record late on start_date and one late on end_date are kept while one
\* after end_date is dropped.
C1_Witness ==
  /\ FilterRan
  /\ start_date < end_date
  /\ \E i, j, k \in 1..Len(fetched) :
       /\ fetched[i].created_at = Ts(start_date, 1) /\ i \in RetainedIds
       /\ fetched[j].created_at = Ts(end_date, 1) /\ j \in RetainedIds
       /\ CalendarDate(fetched[k].created_at) > end_date /\ k \notin RetainedIds

\* C2: without a created_at column the displayed table is the fetched table,
\* same records in the same order, whatever the range, and neither a filter
\* nor a daily aggregation is computed.
C2_NoColumnIdentity ==
  (columns = {"id"} /\ pc # "no_date_column") =>
    /\ displayed = "df"
    /\ shown = fetched
    /\ df = fetched
    /\ "no_date_column" \in warnings
    /\ ~FilterRan
    /\ daily_counts = <<>>
    /\ ~chart

\* A table of several records without the column, shown under an inverted range.
C2_Witness ==
  /\ columns = {"id"}
  /\ displayed = "df"
  /\ Len(shown) >= 2
  /\ start_date > end_date

\* C3: an inverted range is kept as picked (no swap, no clamp), the sidebar
\* message is shown, the filtered table is empty and so is the daily series.
C3_InvertedRange ==
  (pc # "sidebar" /\ picked[1] > picked[2]) =>
    /\ start_date = picked[1]
    /\ end_date = picked[2]
    /\ sidebar_error
    /\ FilterRan => (df_filtered = <<>> /\ info = 0)
    /\ displayed = "df_filtered" => (shown = <<>> /\ "no_records" \in warnings)
    /\ daily_counts = <<>>
    /\ ~chart

\* An inverted range met a table holding a record dated between the two dates.
C3_Witness ==
  /\ picked[1] > picked[2]
  /\ displayed = "df_filtered"
  /\ \E i \in 1..Len(fetched) :
       /\ CalendarDate(fetched[i].created_at) >= picked[2]
       /\ CalendarDate(fetched[i].created_at) <= picked[1]

\* C4: the counts of the daily series sum to the number of filtered records,
\* which is the N of "Mostrando N registros"; 0 for an empty filtered table.
C4_CountsSumToN ==
  displayed = "df_filtered" =>
    /\ SumRegistros(daily_counts) = Len(df_filtered)
    /\ info = Len(df_filtered)

\* Two filtered records share a day, so the series is shorter than the table.
C4_Witness ==
  /\ displayed = "df_filtered"
  /\ Len(daily_counts) >= 1
  /\ Len(daily_counts) < Len(df_filtered)

\* C5: the daily series is strictly ascending by date; a date is in it if
\* and only if some filtered record has that date; its count is the number
\* of those records, at least 1; days without a record are absent.
C5_StrictlyAscending ==
  displayed = "df_filtered" =>
    /\ \A j \in 1..Len(daily_counts) : \A k \in 1..Len(daily_counts) :
         j < k => daily_counts[j].Fecha < daily_counts[k].Fecha
    /\ \A d \in Days :
         (\E j \in 1..Len(daily_counts) : daily_counts[j].Fecha = d)
           <=> (\E i \in 1..Len(df_filtered) : df_filtered[i].created_at.day = d)
    /\ \A j \in 1..Len(daily_counts) :
         /\ daily_counts[j].Fecha \in Days
         /\ daily_counts[j].Registros >= 1
         /\ daily_counts[j].Registros =
              Cardinality({i \in 1..Len(df_filtered) :
                             df_filtered[i].created_at.day = daily_counts[j].Fecha})

\* Records arrive out of date order and a day inside the range has none.
C5_Witness ==
  /\ displayed = "df_filtered"
  /\ Len(daily_counts) >= 2
  /\ \E i \in 1..Len(df_filtered) : \E j \in 1..Len(df_filtered) :
       i < j /\ df_filtered[i].created_at.day > df_filtered[j].created_at.day
  /\ \E d \in Days :
       /\ start_date < d /\ d < end_date
       /\ \A j \in 1..Len(daily_counts) : daily_counts[j].Fecha # d

\* C6: the filtered table is an order-preserving sub-sequence of the table it
\* was selected from: each of its records is the record of that table at the
\* same row label, row labels strictly increase (none repeated, none added).
C6_Subsequence ==
  FilterRan =>
    /\ Len(df) = Len(fetched)
    /\ \A j \in 1..Len(df_filtered) :
         /\ df_filtered[j].id \in 1..Len(fetched)
         /\ fetched[df_filtered[j].id].id = df_filtered[j].id
         /\ df_filtered[j] = df[df_filtered[j].id]
    /\ \A j \in 1..Len(df_filtered) : \A k \in 1..Len(df_filtered) :
         j < k => df_filtered[j].id < df_filtered[k].id

\* Several records retained, at least one dropped.
C6_Witness ==
  /\ FilterRan
  /\ Len(df_filtered) >= 2
  /\ Len(df_filtered) < Len(fetched)

\* C7: filtering the filtered table again with the same range returns it
\* unchanged, the empty one included.
C7_Idempotent ==
  FilterRan => filter_by_range(df_filtered, start_date, end_date) = df_filtered

\* A text column was converted, some records kept and some dropped.
C7_Witness ==
  /\ FilterRan
  /\ df_filtered # <<>>
  /\ Len(df_filtered) < Len(fetched)
  /\ \E i \in 1..Len(fetched) : fetched[i].created_at.kind = "str"

\* C8: a missing or unparseable created_at value only excludes its record;
\* the run does not abort and the other records are filtered by the range.
C8_BadTimestampExcluded ==
  ("created_at" \in columns /\ pc # "filter") =>
    /\ exception # "to_datetime"
    /\ FilterRan
    /\ RetainedIds = InRangeIds

\* C9: the filter leaves the fetched table as it was, the aggregation leaves
\* the filtered table as it was, and nothing after the sidebar changes the range.
C9_NoSideEffects ==
  [][/\ pc = "filter" => df' = df
     /\ pc = "aggregate" => (df_filtered' = df_filtered /\ df' = df)
     /\ pc # "sidebar" => (start_date' = start_date /\ end_date' = end_date)]_vars

\* C10: when no engine is obtained an error is shown, tab 1 issues no query
\* and filters nothing, and the run ends with the three GA4 requests issued,
\* each with the dates picked in the sidebar.
C10_DbFailureStillRunsTab2 ==
  (engine = "None" /\ pc \in {"done", "crashed"}) =>
    /\ db_error
    /\ queries = <<>>
    /\ ~FilterRan
    /\ displayed = "none"
    /\ ga4_requests = <<Request("kpis", picked[1], picked[2]),
                        Request("hourly", picked[1], picked[2]),
                        Request("pages", picked[1], picked[2])>>

====
